---------------------------- MODULE Spec2Model ----------------------------
(***************************************************************************)
(* Excel chatbot (streamlit_app.py): the session state, the upload / reset *)
(* handlers and the per-query pipeline                                     *)
(*   user turn -> generate_prompt -> ask_gemini -> classify / extract ->   *)
(*   execute_code -> format_result -> assistant turn.                      *)
(*                                                                         *)
(* Texts are sequences of atomic pieces (strings).  A piece never splits,  *)
(* and no two adjacent pieces of the alphabet form one of the markers the  *)
(* code searches for, so Python's substring tests and splits are tests and *)
(* splits on pieces.                                                       *)
(***************************************************************************)
EXTENDS Integers, Sequences, FiniteSets, TLC

VARIABLES
    df,                 \* st.session_state.df: None or a data frame
    uploaded_file,      \* the file the uploader widget handed to the last run
    uploaded_filename,  \* st.session_state.uploaded_filename (None: key absent)
    last_response,      \* st.session_state.last_response
    last_query,         \* st.session_state.last_query
    chat_history,       \* st.session_state.chat_history
    suggestion,         \* st.session_state.suggestion
    example_query,      \* st.session_state.example_query
    pc,                 \* position of the script run
    query,              \* local query of the running turn
    prompt,             \* local prompt of the running turn
    response,           \* local response of the running turn
    shown,              \* what the running turn has put on the page (st.* calls)
    path,               \* which copy of the pipeline runs: "typed" or "example"
    result,             \* local result of the running turn
    exec_calls,         \* the codes handed to execute_code by the running turn
    event               \* the handler that made the last step

vars == <<df, uploaded_file, uploaded_filename, last_response, last_query, chat_history,
          suggestion, example_query, pc, query, prompt, response, shown,
          path, result, exec_calls, event>>

\* Python None, one per kind of slot it can sit in
None == "None"
NoneFrame == [none |-> TRUE]
NonePrompt == [none |-> TRUE, of |-> "prompt"]
NoneText == <<None>>
NoneValue == [kind |-> "NoneType", val |-> <<>>]
NoneFile == [name |-> None, readable |-> FALSE, rows |-> 0, cols |-> 0]

(***************************************************************************)
(* Bounds of the model.                                                    *)
(***************************************************************************)
MaxTurns == 2       \* queries a session may start
MaxLen == 6         \* pieces of a completion in the pipeline specification

(***************************************************************************)
(* Program constants.                                                      *)
(***************************************************************************)
MAX_ROWS == 500
MAX_COLS == 20

(***************************************************************************)
(* The alphabet of text pieces.                                            *)
(***************************************************************************)
\* The fence marker is three backquotes in the source; a TLA+ string cannot hold
\* a backquote, so the pieces write it as ~~~.
FENCE_PY == "~~~python"
FENCE == "~~~"
NL == "\n"
T_ANSWER == "The average income is 42."
S_HEAD == "result = df.head(1)"
S_FIG == "result = px.scatter()"
S_NCOLS == "result = df.shape[1]"
S_DTYPES == "result = df.dtypes"
S_NONE == "result = None"
S_STR == "result = \"ok\""
S_FLOAT == "result = 0.5"
S_LIST == "result = [1, 2]"
S_DICT == "result = {}"
S_INSERT == "df.insert(0, df.columns[0], 0, allow_duplicates=True)"
S_ZERO == "x = 1/0"
S_OPEN == "open(0)"
S_IMPORT == "import os"
S_UNCLOSED == "result = ("
S_FROM == "from os import path"
S_IMPORTANCE == "importance = 1"
S_RAISE == "raise [c for c in ().__class__.__base__.__subclasses__() if c.__name__ == 'BaseException'][0]"

\* pieces that contain the text "result ="
BindsResult == {S_HEAD, S_FIG, S_NCOLS, S_DTYPES, S_NONE, S_STR, S_FLOAT, S_LIST,
                S_DICT, S_UNCLOSED}
\* pieces that contain the fence marker
HasFence == {FENCE, FENCE_PY}
\* pieces that are white space only
WhiteSpace == {NL}
\* pieces that start with the text "import"
StartsImport == {S_IMPORT, S_IMPORTANCE}
\* pieces that are one complete Python statement
Statements == {S_HEAD, S_FIG, S_NCOLS, S_DTYPES, S_NONE, S_STR, S_FLOAT, S_LIST,
               S_DICT, S_INSERT, S_ZERO, S_OPEN, S_IMPORT, S_FROM, S_IMPORTANCE,
               S_RAISE}

(***************************************************************************)
(* Python's string operations, on sequences of pieces.                     *)
(***************************************************************************)
\* needle in text, for the two needles of the code
ContainsResultBind(text) == \E i \in 1..Len(text) : text[i] \in BindsResult
ContainsFencePy(text) == \E i \in 1..Len(text) : text[i] = FENCE_PY

\* text.split(FENCE_PY)[1] in place of [-1]: what follows the first marker
RECURSIVE AfterFirstFencePy(_)
AfterFirstFencePy(text) ==
    IF ~ContainsFencePy(text) THEN text
    ELSE IF Head(text) = FENCE_PY THEN Tail(text)
    ELSE AfterFirstFencePy(Tail(text))

\* text.split(FENCE_PY)[-1]
RECURSIVE AfterLastFencePy(_)
AfterLastFencePy(text) ==
    IF ~ContainsFencePy(text) THEN text
    ELSE IF Head(text) = FENCE_PY /\ ~ContainsFencePy(Tail(text)) THEN Tail(text)
    ELSE AfterLastFencePy(Tail(text))

\* text.split(FENCE)[0]
RECURSIVE BeforeFirstFence(_)
BeforeFirstFence(text) ==
    IF text = <<>> \/ Head(text) \in HasFence THEN <<>>
    ELSE <<Head(text)>> \o BeforeFirstFence(Tail(text))

RECURSIVE LStrip(_)
LStrip(text) ==
    IF text # <<>> /\ Head(text) \in WhiteSpace THEN LStrip(Tail(text)) ELSE text

RECURSIVE RStrip(_)
RStrip(text) ==
    IF text # <<>> /\ text[Len(text)] \in WhiteSpace
    THEN RStrip(SubSeq(text, 1, Len(text) - 1)) ELSE text

\* text.strip()
Strip(text) == RStrip(LStrip(text))

\* text.splitlines(): a trailing line break opens no further line
RECURSIVE SplitLinesFrom(_, _)
SplitLinesFrom(text, line) ==
    IF text = <<>> THEN (IF line = <<>> THEN <<>> ELSE <<line>>)
    ELSE IF Head(text) = NL THEN <<line>> \o SplitLinesFrom(Tail(text), <<>>)
    ELSE SplitLinesFrom(Tail(text), Append(line, Head(text)))

SplitLines(text) == SplitLinesFrom(text, <<>>)

\* "\n".join(lines)
RECURSIVE JoinLines(_)
JoinLines(lines) ==
    IF lines = <<>> THEN <<>>
    ELSE IF Len(lines) = 1 THEN lines[1]
    ELSE lines[1] \o <<NL>> \o JoinLines(Tail(lines))

\* line.strip().startswith("import")
StartsWithImport(line) ==
    Strip(line) # <<>> /\ Head(Strip(line)) \in StartsImport

RECURSIVE DropImportLines(_)
DropImportLines(lines) ==
    IF lines = <<>> THEN <<>>
    ELSE IF StartsWithImport(Head(lines)) THEN DropImportLines(Tail(lines))
    ELSE <<Head(lines)>> \o DropImportLines(Tail(lines))

(***************************************************************************)
(* Data frames: the row count, the column count and whether two columns    *)
(* carry the same label.  Uploaded files: whether pandas can read them and *)
(* the frame read_excel makes of them (read_excel renames repeated header  *)
(* cells, so a frame it returns has no duplicate label).                   *)
(***************************************************************************)
Frame(r, c, d) == [rows |-> r, cols |-> c, dup |-> d]

Files ==
    { [name |-> "small.xlsx", readable |-> TRUE, rows |-> 2, cols |-> 2],
      [name |-> "limit.xlsx", readable |-> TRUE, rows |-> MAX_ROWS, cols |-> MAX_COLS],
      [name |-> "long.xlsx", readable |-> TRUE, rows |-> MAX_ROWS + 1, cols |-> 2],
      [name |-> "wide.xlsx", readable |-> TRUE, rows |-> 2, cols |-> MAX_COLS + 1],
      [name |-> "broken.xlsx", readable |-> FALSE, rows |-> 0, cols |-> 0] }

Loaded(d) == [df |-> d, shown |-> <<>>]

Rejected(message, limit) ==
    [df |-> NoneFrame, shown |-> << <<"error", message, limit>> >>]

\* process_excel_file without the check of the column count
process_excel_file_NoColumnLimit(file) ==
    IF ~file.readable THEN Rejected("Error processing Excel file: ", None)
    ELSE IF file.rows > MAX_ROWS
    THEN Rejected("Too many rows. Max allowed: ", ToString(MAX_ROWS))
    ELSE Loaded(Frame(file.rows, file.cols, FALSE))

\* process_excel_file: the frame, or None after an st.error
process_excel_file(file) ==
    IF ~file.readable THEN Rejected("Error processing Excel file: ", None)
    ELSE IF file.rows > MAX_ROWS
    THEN Rejected("Too many rows. Max allowed: ", ToString(MAX_ROWS))
    ELSE IF file.cols > MAX_COLS
    THEN Rejected("Too many columns. Max allowed: ", ToString(MAX_COLS))
    ELSE Loaded(Frame(file.rows, file.cols, FALSE))

(***************************************************************************)
(* generate_prompt: df[col] is a DataFrame, which has no .dtype, when the  *)
(* label col occurs twice; the f-string then raises AttributeError.        *)
(***************************************************************************)
generate_prompt(d, q) ==
    IF d.dup THEN [raised |-> TRUE, prompt |-> NonePrompt]
    ELSE [raised |-> FALSE,
          prompt |-> [column_info |-> <<d.rows, d.cols>>, question |-> q]]

(***************************************************************************)
(* ask_gemini: the client's outcome is a raw text or an exception; the     *)
(* text is stripped, an exception is shown with st.error and gives "".     *)
(***************************************************************************)
\* ask_gemini returning the diagnostic of the exception as the answer
ask_gemini_ReturnsDiagnostic(outcome) ==
    IF outcome.ok THEN [text |-> Strip(outcome.text), shown |-> <<>>]
    ELSE [text |-> outcome.text,
          shown |-> << <<"error", "Gemini Flash error: ">> \o outcome.text >>]

ask_gemini(outcome) ==
    IF outcome.ok THEN [text |-> Strip(outcome.text), shown |-> <<>>]
    ELSE [text |-> <<>>,
          shown |-> << <<"error", "Gemini Flash error: ">> \o outcome.text >>]

(***************************************************************************)
(* execute_code: exec(code, {"__builtins__": {}}, {df, pd, px}).  The code *)
(* is compiled whole, then its statements run in order on the df object    *)
(* the session stores (no copy is made); an exception that is an Exception *)
(* is shown with st.error and gives None, any other BaseException passes   *)
(* the except clause and leaves execute_code.                              *)
(***************************************************************************)
E_SYNTAX == "invalid syntax"
E_ZERO == "division by zero"
E_NAME == "name 'open' is not defined"
E_IMPORT == "__import__ not found"
E_INDEX == "index 0 is out of bounds for axis 0 with size 0"
E_BASE == "BaseException"

\* what "except Exception" does not catch
NotAnException == {E_BASE}

Min(a, b) == IF a < b THEN a ELSE b

LineCompiles(line) == line = <<>> \/ (Len(line) = 1 /\ line[1] \in Statements)

Compiles(code) == \A i \in 1..Len(SplitLines(code)) : LineCompiles(SplitLines(code)[i])

\* a Python value: its type and, piece by piece, what str() makes of it
Value(k, v) == [kind |-> k, val |-> v]

\* one statement, run in env = [df, result, raised]
ExecStatement(stmt, env) ==
    CASE stmt = S_HEAD ->
           [env EXCEPT !.result = Value("DataFrame", <<ToString(Min(1, env.df.rows)), ToString(env.df.cols)>>)]
      [] stmt = S_FIG -> [env EXCEPT !.result = Value("Figure", <<>>)]
      [] stmt = S_NCOLS -> [env EXCEPT !.result = Value("int", <<ToString(env.df.cols)>>)]
      [] stmt = S_DTYPES -> [env EXCEPT !.result = Value("Series", <<ToString(env.df.cols)>>)]
      [] stmt = S_NONE -> [env EXCEPT !.result = NoneValue]
      [] stmt = S_STR -> [env EXCEPT !.result = Value("str", <<"ok">>)]
      [] stmt = S_FLOAT -> [env EXCEPT !.result = Value("float", <<"0.5">>)]
      [] stmt = S_LIST -> [env EXCEPT !.result = Value("list", <<"[1, 2]">>)]
      [] stmt = S_DICT -> [env EXCEPT !.result = Value("dict", <<"{}">>)]
      [] stmt = S_INSERT ->
           IF env.df.cols = 0 THEN [env EXCEPT !.raised = E_INDEX]
           ELSE [env EXCEPT !.df = Frame(env.df.rows, env.df.cols + 1, TRUE)]
      [] stmt = S_ZERO -> [env EXCEPT !.raised = E_ZERO]
      [] stmt = S_OPEN -> [env EXCEPT !.raised = E_NAME]
      [] stmt = S_IMPORT -> [env EXCEPT !.raised = E_IMPORT]
      [] stmt = S_FROM -> [env EXCEPT !.raised = E_IMPORT]
      [] stmt = S_IMPORTANCE -> env
      [] stmt = S_RAISE -> [env EXCEPT !.raised = E_BASE]
      [] OTHER -> [env EXCEPT !.raised = E_SYNTAX]

RECURSIVE ExecLines(_, _)
ExecLines(lines, env) ==
    IF lines = <<>> \/ env.raised # None THEN env
    ELSE IF Head(lines) = <<>> THEN ExecLines(Tail(lines), env)
    ELSE ExecLines(Tail(lines), ExecStatement(Head(lines)[1], env))

Exec(code, d) ==
    IF ~Compiles(code) THEN [df |-> d, result |-> NoneValue, raised |-> E_SYNTAX]
    ELSE ExecLines(SplitLines(code), [df |-> d, result |-> NoneValue, raised |-> None])

\* [result: what execute_code returns, df: the stored frame afterwards, shown,
\*  escaped: the exception that leaves execute_code, if one does]
execute_code(code, d) ==
    LET env == Exec(code, d) IN
    IF env.raised \in NotAnException
    THEN [result |-> NoneValue, df |-> env.df, escaped |-> env.raised, shown |-> <<>>]
    ELSE IF env.raised # None
    THEN [result |-> NoneValue, df |-> env.df, escaped |-> None,
          shown |-> << <<"error", "Code execution failed: ", env.raised>> >>]
    ELSE [result |-> env.result, df |-> env.df, escaped |-> None, shown |-> <<>>]

(***************************************************************************)
(* format_result: the branch taken, the st.* calls made, the text returned *)
(* and, when a display call raises (st_raises), the exception.             *)
(***************************************************************************)
ACK_NONE == "No result to display."
ACK_TABLE == "Here is the tabular data you requested."
ACK_CHART == "Here is the chart you requested."
ACK_UNKNOWN == "Assistant returned an unknown format."
E_DISPLAY == "display call failed"

ScalarKinds == {"str", "int", "float", "list", "dict"}

\* str(result)
Str(value) == value.val[1]

Formatted(b, calls, text) ==
    [branch |-> b, shown |-> calls, ack |-> text, raised |-> None]

DisplayRaised(b) ==
    [branch |-> b, shown |-> <<>>, ack |-> None, raised |-> E_DISPLAY]

\* format_result with the chart branch answering as the table branch does
format_result_ChartAsTable(value, st_raises) ==
    IF value = NoneValue THEN Formatted("none", <<>>, ACK_NONE)
    ELSE IF value.kind \in {"DataFrame", "Figure"} THEN
        IF st_raises THEN DisplayRaised("table")
        ELSE Formatted("table",
                       << <<"markdown", "Tabular Output">>, <<"dataframe", ToString(value.val)>>,
                          <<"download_button", "result.csv", ToString(value.val)>> >>,
                       ACK_TABLE)
    ELSE IF value.kind \in ScalarKinds THEN
        IF st_raises THEN DisplayRaised("text")
        ELSE Formatted("text",
                       << <<"markdown", "Text Output">>, <<"write", Str(value)>> >>,
                       Str(value))
    ELSE Formatted("unknown", << <<"warning", ACK_UNKNOWN>> >>, ACK_UNKNOWN)

format_result(value, st_raises) ==
    IF value = NoneValue THEN Formatted("none", <<>>, ACK_NONE)
    ELSE IF value.kind = "DataFrame" THEN
        IF st_raises THEN DisplayRaised("table")
        ELSE Formatted("table",
                       << <<"markdown", "Tabular Output">>, <<"dataframe", ToString(value.val)>>,
                          <<"download_button", "result.csv", ToString(value.val)>> >>,
                       ACK_TABLE)
    ELSE IF value.kind = "Figure" THEN
        IF st_raises THEN DisplayRaised("chart")
        ELSE Formatted("chart",
                       << <<"markdown", "Chart Output">>, <<"plotly_chart", ToString(value.val)>> >>,
                       ACK_CHART)
    ELSE IF value.kind \in ScalarKinds THEN
        IF st_raises THEN DisplayRaised("text")
        ELSE Formatted("text",
                       << <<"markdown", "Text Output">>, <<"write", Str(value)>> >>,
                       Str(value))
    ELSE Formatted("unknown", << <<"warning", ACK_UNKNOWN>> >>, ACK_UNKNOWN)

(***************************************************************************)
(* The response branch of main (lines 193-203, repeated at 216-226).       *)
(***************************************************************************)
NO_ANSWER == "No answer returned."
FAILED == "Failed to process code: "

\* the test without its "result =" conjunct
is_snippet_FenceOnly(resp) == resp # <<>> /\ ContainsFencePy(resp)

\* response and "result =" in response and FENCE_PY in response
is_snippet(resp) ==
    resp # <<>> /\ ContainsResultBind(resp) /\ ContainsFencePy(resp)

\* raw_code = response.split(FENCE_PY)[-1].split(FENCE)[0].strip()
raw_code(resp) == Strip(BeforeFirstFence(AfterLastFencePy(resp)))

\* code = "\n".join(line for line in raw_code.splitlines() if not ...)
extract_code(resp) == JoinLines(DropImportLines(SplitLines(raw_code(resp))))

Turn(sender, text) == [sender |-> sender, text |-> text]

\* what the branch does with a response: the assistant text appended, the
\* stored frame afterwards, the page output, the result and the executor calls
\* and the exception that leaves the branch (its except clause, too, takes
\* an Exception only), if one does
Reply(resp, d, st_raises) ==
    IF is_snippet(resp)
    THEN LET code == extract_code(resp)
             ex == execute_code(code, d)
             fr == format_result(ex.result, st_raises)
         IN  IF ex.escaped # None
             THEN [text |-> NoneText,
                   df |-> ex.df,
                   shown |-> ex.shown,
                   result |-> NoneValue,
                   exec_calls |-> <<code>>,
                   escaped |-> ex.escaped]
             ELSE [text |-> IF fr.raised # None THEN <<FAILED, fr.raised>> ELSE <<fr.ack>>,
                   df |-> ex.df,
                   shown |-> ex.shown \o fr.shown,
                   result |-> ex.result,
                   exec_calls |-> <<code>>,
                   escaped |-> None]
    ELSE [text |-> IF resp # <<>> THEN resp ELSE <<NO_ANSWER>>,
          df |-> d,
          shown |-> <<>>,
          result |-> NoneValue,
          exec_calls |-> <<>>,
          escaped |-> None]

\* the copy of the example path without the "No answer returned." fallback
ExampleReply_NoFallback(resp, d, st_raises) ==
    IF is_snippet(resp)
    THEN LET code == extract_code(resp)
             ex == execute_code(code, d)
             fr == format_result(ex.result, st_raises)
         IN  IF ex.escaped # None
             THEN [text |-> NoneText,
                   df |-> ex.df,
                   shown |-> ex.shown,
                   result |-> NoneValue,
                   exec_calls |-> <<code>>,
                   escaped |-> ex.escaped]
             ELSE [text |-> IF fr.raised # None THEN <<FAILED, fr.raised>> ELSE <<fr.ack>>,
                   df |-> ex.df,
                   shown |-> ex.shown \o fr.shown,
                   result |-> ex.result,
                   exec_calls |-> <<code>>,
                   escaped |-> None]
    ELSE [text |-> resp,
          df |-> d,
          shown |-> <<>>,
          result |-> NoneValue,
          exec_calls |-> <<>>,
          escaped |-> None]

\* the copy of the branch in the example path (lines 216-226)
ExampleReply(resp, d, st_raises) ==
    IF is_snippet(resp)
    THEN LET code == extract_code(resp)
             ex == execute_code(code, d)
             fr == format_result(ex.result, st_raises)
         IN  IF ex.escaped # None
             THEN [text |-> NoneText,
                   df |-> ex.df,
                   shown |-> ex.shown,
                   result |-> NoneValue,
                   exec_calls |-> <<code>>,
                   escaped |-> ex.escaped]
             ELSE [text |-> IF fr.raised # None THEN <<FAILED, fr.raised>> ELSE <<fr.ack>>,
                   df |-> ex.df,
                   shown |-> ex.shown \o fr.shown,
                   result |-> ex.result,
                   exec_calls |-> <<code>>,
                   escaped |-> None]
    ELSE [text |-> IF resp # <<>> THEN resp ELSE <<NO_ANSWER>>,
          df |-> d,
          shown |-> <<>>,
          result |-> NoneValue,
          exec_calls |-> <<>>,
          escaped |-> None]

(***************************************************************************)
(* Inputs of the session specification.                                    *)
(***************************************************************************)
examples == <<"What is the average income?", "Show number of customers by region.">>

TypedQueries == {"", "total sales", examples[1]}

Fenced(body) == <<FENCE_PY, NL>> \o body \o <<NL, FENCE>>

Ok(text) == [ok |-> TRUE, text |-> text]

ClientOutcomes ==
    { Ok(<<T_ANSWER>>),
      Ok(<<>>),
      Ok(<<NL>>),
      [ok |-> FALSE, text |-> <<"quota exceeded">>],
      Ok(Fenced(<<S_HEAD>>)),
      Ok(Fenced(<<S_FIG>>)),
      Ok(Fenced(<<S_INSERT, NL, S_NCOLS>>)),
      Ok(Fenced(<<S_NCOLS, NL, S_ZERO>>)),
      Ok(Fenced(<<S_NCOLS, NL, S_OPEN>>)),
      Ok(Fenced(<<S_UNCLOSED>>)),
      Ok(Fenced(<<S_DTYPES>>)),
      Ok(Fenced(<<S_NONE>>)),
      Ok(Fenced(<<S_STR>>)),
      Ok(Fenced(<<S_FLOAT>>)),
      Ok(Fenced(<<S_LIST>>)),
      Ok(Fenced(<<S_DICT>>)),
      Ok(Fenced(<<S_IMPORT, NL, S_NCOLS>>)),
      Ok(Fenced(<<S_NCOLS, NL, S_RAISE>>)),
      Ok(Fenced(<<S_FROM, NL, S_NCOLS>>)),
      Ok(Fenced(<<S_IMPORTANCE, NL, S_NCOLS>>)) }

IsUser(t) == t.sender = "user"

UserTurns(log) == Len(SelectSeq(log, IsUser))

(***************************************************************************)
(* The state after lines 18-29 of a fresh session.                         *)
(***************************************************************************)
SessionDefaults ==
    /\ df = NoneFrame
    /\ last_response = NoneText
    /\ last_query = None
    /\ chat_history = <<>>
    /\ suggestion = ""
    /\ example_query = None

NoRun ==
    /\ pc = "idle"
    /\ path = None
    /\ query = None
    /\ prompt = NonePrompt
    /\ response = NoneText
    /\ result = NoneValue
    /\ shown = <<>>
    /\ exec_calls = <<>>
    /\ uploaded_file = NoneFile

Init ==
    /\ SessionDefaults
    /\ uploaded_filename = None
    /\ NoRun
    /\ event = "init"

(***************************************************************************)
(* Upload (lines 125-133): only offered while no frame is stored.          *)
(***************************************************************************)
Upload ==
    /\ pc = "idle"
    /\ df = NoneFrame
    /\ \E file \in Files :
         /\ uploaded_file' = file
         /\ LET got == process_excel_file(file) IN
            IF got.df # NoneFrame
            THEN /\ df' = got.df
                 /\ uploaded_filename' = file.name
                 /\ shown' = <<>>
            ELSE /\ shown' = got.shown
                 /\ UNCHANGED <<df, uploaded_filename>>
    /\ exec_calls' = <<>>
    /\ result' = NoneValue
    /\ event' = "upload"
    /\ UNCHANGED <<last_response, last_query, chat_history, suggestion,
                   example_query, pc, path, query, prompt, response>>

(***************************************************************************)
(* Remove File / Reset File (lines 142-150): every key of the session is   *)
(* deleted and the rerun sets the defaults of lines 18-29.                 *)
(***************************************************************************)
\* the reset that forgets to clear the chat history
ClearSession_KeepsLog ==
    /\ df' = NoneFrame
    /\ last_response' = NoneText
    /\ last_query' = None
    /\ chat_history' = chat_history
    /\ suggestion' = ""
    /\ example_query' = None
    /\ uploaded_filename' = None

ClearSession ==
    /\ df' = NoneFrame
    /\ last_response' = NoneText
    /\ last_query' = None
    /\ chat_history' = <<>>
    /\ suggestion' = ""
    /\ example_query' = None
    /\ uploaded_filename' = None

Rerun ==
    /\ pc' = "idle"
    /\ path' = None
    /\ query' = None
    /\ prompt' = NonePrompt
    /\ response' = NoneText
    /\ result' = NoneValue
    /\ shown' = <<>>
    /\ exec_calls' = <<>>
    /\ uploaded_file' = NoneFile

RemoveFile ==
    /\ pc = "idle"
    /\ df # NoneFrame
    /\ ClearSession
    /\ Rerun
    /\ event' = "remove"

\* Reset File taken while a turn is still being processed
ResetFile_MidTurn ==
    /\ df # NoneFrame
    /\ ClearSession
    /\ Rerun
    /\ event' = "reset"

ResetFile ==
    /\ pc = "idle"
    /\ df # NoneFrame
    /\ ClearSession
    /\ Rerun
    /\ event' = "reset"

(***************************************************************************)
(* An example button (lines 166-169): the query is parked and the script   *)
(* reruns at once.                                                         *)
(***************************************************************************)
ClickExample ==
    /\ pc = "idle"
    /\ df # NoneFrame
    /\ UserTurns(chat_history) < MaxTurns
    /\ \E i \in 1..Len(examples) : example_query' = examples[i]
    /\ pc' = "rerun"
    /\ shown' = <<>>
    /\ exec_calls' = <<>>
    /\ result' = NoneValue
    /\ uploaded_file' = NoneFile
    /\ event' = "click"
    /\ UNCHANGED <<df, uploaded_filename, last_response, last_query, chat_history,
                   suggestion, path, query, prompt, response>>

(***************************************************************************)
(* The start of a turn: line 184-185 (typed) and lines 205-208 (example).  *)
(***************************************************************************)
SendQuery ==
    /\ pc = "idle"
    /\ df # NoneFrame
    /\ UserTurns(chat_history) < MaxTurns
    /\ \E q \in TypedQueries :
         IF q # ""
         THEN /\ chat_history' = Append(chat_history, Turn("user", <<q>>))
              /\ query' = q
              /\ path' = "typed"
              /\ pc' = "prompt"
         ELSE UNCHANGED <<chat_history, query, path, pc>>
    /\ shown' = <<>>
    /\ exec_calls' = <<>>
    /\ result' = NoneValue
    /\ uploaded_file' = NoneFile
    /\ event' = "send"
    /\ UNCHANGED <<df, uploaded_filename, last_response, last_query, suggestion,
                   example_query, prompt, response>>

\* the example path without line 207: the parked query stays parked
ExampleQuery_KeepsPending ==
    /\ pc = "rerun"
    /\ example_query # None
    /\ query' = example_query
    /\ chat_history' = Append(chat_history, Turn("user", <<example_query>>))
    /\ path' = "example"
    /\ pc' = "prompt"
    /\ event' = "example"
    /\ UNCHANGED <<df, uploaded_file, uploaded_filename, last_response, last_query,
                   suggestion, prompt, response, shown, result, exec_calls,
                   example_query>>

ExampleQuery ==
    /\ pc = "rerun"
    /\ example_query # None
    /\ query' = example_query
    /\ example_query' = None
    /\ chat_history' = Append(chat_history, Turn("user", <<example_query>>))
    /\ path' = "example"
    /\ pc' = "prompt"
    /\ event' = "example"
    /\ UNCHANGED <<df, uploaded_file, uploaded_filename, last_response, last_query,
                   suggestion, prompt, response, shown, result, exec_calls>>

(***************************************************************************)
(* The pipeline of a turn, one copy per path.                              *)
(***************************************************************************)
\* prompt = generate_prompt(st.session_state.df, query): not inside any try,
\* so an exception ends the script run where it is
BuildPrompt(p) ==
    /\ pc = "prompt"
    /\ path = p
    /\ LET built == generate_prompt(df, query) IN
       IF built.raised
       THEN /\ pc' = "idle"
            /\ shown' = << <<"exception", "AttributeError">> >>
            /\ path' = None
            /\ query' = None
            /\ prompt' = NonePrompt
       ELSE /\ pc' = "ask"
            /\ prompt' = built.prompt
            /\ UNCHANGED <<shown, path, query>>
    /\ event' = "prompt"
    /\ UNCHANGED <<df, uploaded_file, uploaded_filename, last_response, last_query,
                   chat_history, suggestion, example_query, response, result,
                   exec_calls>>

\* response = ask_gemini(prompt); last_query = query; last_response = response
Ask(p) ==
    /\ pc = "ask"
    /\ path = p
    /\ \E outcome \in ClientOutcomes :
         LET got == ask_gemini(outcome) IN
         /\ response' = got.text
         /\ last_response' = got.text
         /\ shown' = got.shown
    /\ last_query' = query
    /\ pc' = "respond"
    /\ event' = "ask"
    /\ UNCHANGED <<df, uploaded_file, uploaded_filename, chat_history, suggestion,
                   example_query, path, query, prompt, result, exec_calls>>

\* the branch assigning a fresh list to the log in place of appending
Respond_OverwritesLog(p) ==
    /\ pc = "respond"
    /\ path = p
    /\ \E st_raises \in BOOLEAN :
         LET r == IF p = "typed" THEN Reply(response, df, st_raises)
                  ELSE ExampleReply(response, df, st_raises)
         IN
         /\ chat_history' = IF r.escaped # None THEN chat_history
                            ELSE <<Turn("assistant", r.text)>>
         /\ df' = r.df
         /\ shown' = shown \o r.shown
         /\ result' = r.result
         /\ exec_calls' = r.exec_calls
    /\ pc' = "idle"
    /\ path' = None
    /\ query' = None
    /\ prompt' = NonePrompt
    /\ response' = NoneText
    /\ event' = "respond"
    /\ UNCHANGED <<uploaded_file, uploaded_filename, last_response, last_query,
                   suggestion, example_query>>

\* lines 193-203 in the typed path, 216-226 in the example path; the script
\* run then ends, with the assistant turn appended unless an exception left
\* the branch
Respond(p) ==
    /\ pc = "respond"
    /\ path = p
    /\ \E st_raises \in BOOLEAN :
         LET r == IF p = "typed" THEN Reply(response, df, st_raises)
                  ELSE ExampleReply(response, df, st_raises)
         IN
         /\ chat_history' = IF r.escaped # None THEN chat_history
                            ELSE Append(chat_history, Turn("assistant", r.text))
         /\ df' = r.df
         /\ shown' = shown \o r.shown
         /\ result' = r.result
         /\ exec_calls' = r.exec_calls
    /\ pc' = "idle"
    /\ path' = None
    /\ query' = None
    /\ prompt' = NonePrompt
    /\ response' = NoneText
    /\ event' = "respond"
    /\ UNCHANGED <<uploaded_file, uploaded_filename, last_response, last_query,
                   suggestion, example_query>>

TypedPrompt == BuildPrompt("typed")
TypedAsk == Ask("typed")
TypedRespond == Respond("typed")
ExamplePrompt == BuildPrompt("example")
ExampleAsk == Ask("example")
ExampleRespond == Respond("example")

Next ==
    \/ Upload
    \/ RemoveFile
    \/ ResetFile
    \/ ClickExample
    \/ SendQuery
    \/ ExampleQuery
    \/ TypedPrompt
    \/ TypedAsk
    \/ TypedRespond
    \/ ExamplePrompt
    \/ ExampleAsk
    \/ ExampleRespond

Spec == Init /\ [][Next]_vars

(***************************************************************************)
(* The pipeline specification: a turn that has reached the response branch *)
(* with any completion of at most MaxLen pieces, as ask_gemini returns it. *)
(***************************************************************************)
PipeAlphabet == {FENCE_PY, FENCE, NL, S_HEAD, S_IMPORT, T_ANSWER}

Completions == UNION { [1..n -> PipeAlphabet] : n \in 0..MaxLen }

InitPipeline ==
    /\ df = Frame(2, 2, FALSE)
    /\ uploaded_file = NoneFile
    /\ uploaded_filename = "small.xlsx"
    /\ suggestion = ""
    /\ example_query = None
    /\ path \in {"typed", "example"}
    /\ query = (IF path = "typed" THEN "total sales" ELSE examples[1])
    /\ chat_history = <<Turn("user", <<query>>)>>
    /\ prompt = generate_prompt(df, query).prompt
    /\ \E text \in Completions : response = ask_gemini(Ok(text)).text
    /\ last_query = query
    /\ last_response = response
    /\ result = NoneValue
    /\ shown = <<>>
    /\ exec_calls = <<>>
    /\ pc = "respond"
    /\ event = "ask"

NextPipeline ==
    \/ TypedRespond
    \/ ExampleRespond

SpecPipeline == InitPipeline /\ [][NextPipeline]_vars

(***************************************************************************)
(* Properties.                                                             *)
(***************************************************************************)
LastTurn == chat_history[Len(chat_history)]

TurnEnded == pc = "idle" /\ event \in {"prompt", "respond"}

\* the st.error call of execute_code in the page output, if there is one
ExecErrors(page) == { i \in 1..Len(page) : page[i][2] = "Code execution failed: " }

IsDisplayCall(call) == call[1] \notin {"markdown", "error", "exception"}

\* the display calls of the page output, by name and in order
DisplayCalls(page) ==
    [i \in 1..Len(SelectSeq(page, IsDisplayCall)) |-> SelectSeq(page, IsDisplayCall)[i][1]]

Pieces(text) == { text[i] : i \in 1..Len(text) }

\* C1: the user turn is in the log before the prompt is built, and every
\* turn that has ended has left an assistant turn as the last entry of the
\* log, whichever stage failed.  (Refuted: generate_prompt runs outside any
\* try, and raises on a frame with a repeated column label.)
C1_EveryTurnEndsWithReply ==
    /\ pc = "prompt" => (chat_history # <<>> /\ LastTurn = Turn("user", <<query>>))
    /\ pc = "idle" => (chat_history = <<>> \/ LastTurn.sender = "assistant")

\* C2: when execute_code failed in a turn, the assistant turn logged for it
\* carries the text of the execution error.  (Refuted: the error goes to
\* st.error only and the log gets "No result to display.".)
C2_ExecutionFailureIsWrapped ==
    (TurnEnded /\ event = "respond") =>
        \A i \in ExecErrors(shown) : shown[i][3] \in Pieces(LastTurn.text)

\* C3: a step that runs a snippet leaves the stored data frame as it was.
\* (Refuted: exec gets the stored frame itself, and df.insert changes it.)
C3_ExecuteLeavesDatasetUnchanged ==
    [][(event' = "respond" /\ exec_calls' # <<>>) => df' = df]_vars

Oversized(file) == file.rows > MAX_ROWS \/ file.cols > MAX_COLS

SizeErrors ==
    { <<"error", "Too many rows. Max allowed: ", ToString(MAX_ROWS)>>,
      <<"error", "Too many columns. Max allowed: ", ToString(MAX_COLS)>> }

\* C4: an upload of a file with more than MAX_ROWS rows or more than
\* MAX_COLS columns shows a size error and leaves the stored frame, the log
\* and the pending example query as they were; a frame that an upload
\* installs is the file's frame and is within both limits.
C4_OversizedLoadRejected ==
    [][(event' = "upload" /\ uploaded_file' # NoneFile) =>
         /\ (uploaded_file'.readable /\ Oversized(uploaded_file')) =>
               /\ df' = df
               /\ chat_history' = chat_history
               /\ example_query' = example_query
               /\ Len(shown') = 1 /\ shown'[1] \in SizeErrors
         /\ df' # df =>
               /\ df' = Frame(uploaded_file'.rows, uploaded_file'.cols, FALSE)
               /\ df'.rows <= MAX_ROWS
               /\ df'.cols <= MAX_COLS]_vars

C4_Witness ==
    /\ event = "upload"
    /\ uploaded_file.readable
    /\ uploaded_file.cols > MAX_COLS
    /\ df = NoneFrame
    /\ shown # <<>>

\* what format_result did in a turn that ran a snippet and whose display
\* calls did not raise, with the treatment of None left open
Dispatch(none_calls, none_ack) ==
    (TurnEnded /\ exec_calls # <<>> /\ LastTurn.sender = "assistant"
               /\ LastTurn.text[1] # FAILED) =>
        LET calls == DisplayCalls(shown)
            ack == LastTurn.text
        IN  CASE result.kind = "NoneType" -> calls = none_calls /\ ack = none_ack
              [] result.kind = "DataFrame" ->
                    calls = <<"dataframe", "download_button">> /\ ack = <<ACK_TABLE>>
              [] result.kind = "Figure" ->
                    calls = <<"plotly_chart">> /\ ack = <<ACK_CHART>>
              [] result.kind \in {"str", "int", "float", "list", "dict"} ->
                    calls = <<"write">> /\ ack = result.val
              [] OTHER -> calls = <<"warning">> /\ ack = <<ACK_UNKNOWN>>

\* C5 as stated: table, else chart, else scalar-like, else (None included)
\* a warning and the "unknown format" message.  (Refuted for None.)
C5_AbsentIsUnknownFormat == Dispatch(<<"warning">>, <<ACK_UNKNOWN>>)

\* C5, amended: None is tested first and gives no display call and
\* "No result to display."; then table, chart, scalar-like as stated; any
\* other value gives the warning and the "unknown format" message.
C5_RenderDispatch == Dispatch(<<>>, <<ACK_NONE>>)

C5_Witness ==
    /\ TurnEnded
    /\ exec_calls # <<>>
    /\ result = NoneValue
    /\ shown = <<>>
    /\ LastTurn.text = <<ACK_NONE>>

(***************************************************************************)
(* Fenced regions of a text, read as a Markdown reader does: a fence       *)
(* marker, tagged or bare, opens a region, and the next bare marker or the *)
(* end of the text closes it.                                              *)
(***************************************************************************)
RECURSIVE ScanRegions(_, _, _)
ScanRegions(text, open, body) ==
    IF text = <<>> THEN (IF open THEN <<body>> ELSE <<>>)
    ELSE IF ~open
    THEN ScanRegions(Tail(text), Head(text) \in HasFence, <<>>)
    ELSE IF Head(text) = FENCE
    THEN <<body>> \o ScanRegions(Tail(text), FALSE, <<>>)
    ELSE ScanRegions(Tail(text), TRUE, Append(body, Head(text)))

FencedRegions(text) == ScanRegions(text, FALSE, <<>>)

HasResultToken(text) == \E i \in 1..Len(text) : text[i] \in BindsResult

\* the region as it is handed on: trimmed, lines that start with import left out
Cleaned(region) == JoinLines(DropImportLines(SplitLines(Strip(region))))

Responded == TurnEnded /\ event = "respond"

PlainAnswerLogged ==
    /\ exec_calls = <<>>
    /\ LastTurn = Turn("assistant",
                       IF last_response = <<>> THEN <<NO_ANSWER>> ELSE last_response)

SnippetRun == Len(exec_calls) = 1

\* C6 as stated: the completion is run as a snippet iff it contains a fenced
\* code region and the result-binding token, and is logged as a plain
\* answer otherwise.  (Refuted: a region opened by a bare fence does not
\* count.)
C6_SnippetIffFencedRegion ==
    Responded =>
        IF FencedRegions(last_response) # <<>> /\ HasResultToken(last_response)
        THEN SnippetRun
        ELSE PlainAnswerLogged

\* C6, amended: the completion is run as a snippet iff it contains the
\* marker that opens a Python-tagged fence and the result-binding token;
\* every other completion, the empty one included, is logged as a plain
\* answer and the executor is not called.
C6_SnippetIffPythonFence ==
    Responded =>
        IF /\ \E i \in 1..Len(last_response) : last_response[i] = FENCE_PY
           /\ HasResultToken(last_response)
        THEN SnippetRun
        ELSE PlainAnswerLogged

C6_Witness ==
    /\ Responded
    /\ last_response = <<FENCE, S_HEAD, FENCE>>
    /\ PlainAnswerLogged

\* C7 as stated: of several fenced regions, the last one is the code that
\* is run.  (Refuted: a last region opened by a bare fence is passed over.)
C7_LastFencedRegionRuns ==
    (Responded /\ SnippetRun /\ Len(FencedRegions(last_response)) >= 2) =>
        exec_calls[1] =
            Cleaned(FencedRegions(last_response)[Len(FencedRegions(last_response))])

\* the pieces after position i up to the next fence marker or the end
RECURSIVE UpToFence(_, _)
UpToFence(text, i) ==
    IF i >= Len(text) \/ text[i + 1] \in HasFence THEN <<>>
    ELSE <<text[i + 1]>> \o UpToFence(text, i + 1)

\* C7, amended: the code that is run is what stands between the last
\* ~~~python marker of the text and the first fence marker after it (the
\* end of the text if there is none), and no other region.
C7_LastPythonFenceRuns ==
    (Responded /\ SnippetRun) =>
        \E i \in 1..Len(last_response) :
            /\ last_response[i] = FENCE_PY
            /\ \A j \in (i + 1)..Len(last_response) : last_response[j] # FENCE_PY
            /\ exec_calls[1] = Cleaned(UpToFence(last_response, i))

C7_Witness ==
    /\ Responded
    /\ last_response = <<FENCE_PY, T_ANSWER, FENCE, FENCE_PY, S_HEAD, FENCE>>
    /\ exec_calls = << <<S_HEAD>> >>

\* C8: while no frame is stored the log is empty and no example query is
\* pending, and Remove File / Reset File leave the session at its defaults.
C8_ResetClearsSession ==
    /\ df = NoneFrame => (chat_history = <<>> /\ example_query = None)
    /\ event \in {"remove", "reset"} =>
          /\ df = NoneFrame
          /\ chat_history = <<>>
          /\ example_query = None
          /\ last_query = None
          /\ last_response = NoneText

C8_Witness ==
    /\ event = "reset"
    /\ df = NoneFrame
    /\ chat_history = <<>>

IsPrefix(a, b) == Len(a) <= Len(b) /\ SubSeq(b, 1, Len(a)) = a

\* C9: every step that is not a session reset keeps the log as a prefix of
\* the log after it.
C9_LogAppendOnly ==
    [][event' \notin {"remove", "reset"} => IsPrefix(chat_history, chat_history')]_vars

C9_Witness ==
    /\ Responded
    /\ Len(chat_history) = 4

GeminiFailed(page) == \E i \in 1..Len(page) : page[i][2] = "Gemini Flash error: "

\* C10: when the client failed or the completion is empty, the executor is
\* not called and the assistant turn is "No answer returned.".
C10_EmptyCompletionFallback ==
    (Responded /\ (last_response = <<>> \/ GeminiFailed(shown))) =>
        /\ exec_calls = <<>>
        /\ LastTurn = Turn("assistant", <<NO_ANSWER>>)

C10_Witness ==
    /\ Responded
    /\ GeminiFailed(shown)
    /\ last_response = <<>>
    /\ LastTurn = Turn("assistant", <<NO_ANSWER>>)

\* C11: a turn that handed code to execute_code has ended with its assistant
\* turn logged, whatever the code was: execute_code gave a result or showed an
\* execution error, and nothing left it as an exception.  (Refuted: its
\* except clause takes Exception only, and a snippet can raise a
\* BaseException that is not one.)
C11_ExecuteNeverRaises ==
    (Responded /\ exec_calls # <<>>) =>
        LastTurn.sender = "assistant"

\* pieces that are a Python import statement, in either of its two forms
ImportDirectives == {S_IMPORT, S_FROM}

BeginsImportDirective(line) ==
    Strip(line) # <<>> /\ Head(Strip(line)) \in ImportDirectives

RECURSIVE DropImportDirectives(_)
DropImportDirectives(lines) ==
    IF lines = <<>> THEN <<>>
    ELSE IF BeginsImportDirective(Head(lines)) THEN DropImportDirectives(Tail(lines))
    ELSE <<Head(lines)>> \o DropImportDirectives(Tail(lines))

\* C12: the code handed to execute_code is the extracted region without its
\* lines that begin an import statement, every other line kept as it was and
\* in order, and no line of it begins an import statement.  (Refuted: the
\* test is startswith("import"), which keeps "from os import path" and drops
\* "importance = 1".)
C12_ImportLinesStripped ==
    (Responded /\ SnippetRun) =>
        LET region == SplitLines(raw_code(last_response))
            handed == SplitLines(exec_calls[1])
        IN  /\ exec_calls[1] = JoinLines(DropImportDirectives(region))
            /\ \A i \in 1..Len(handed) : ~BeginsImportDirective(handed[i])

\* a turn is between the append of its user entry and the end of its run
InFlight == pc \in {"prompt", "ask", "respond"}

TypedEffect(st_raises) ==
    LET r == Reply(response, df, st_raises) IN
    /\ chat_history' = IF r.escaped # None THEN chat_history
                       ELSE Append(chat_history, Turn("assistant", r.text))
    /\ df' = r.df
    /\ shown' = shown \o r.shown
    /\ result' = r.result
    /\ exec_calls' = r.exec_calls
    /\ last_query' = last_query
    /\ last_response' = last_response

\* C14: a turn reaches the response branch in the same way on both paths
\* (its user entry last in the log, last_query the query, last_response the
\* completion); there the two copies of the branch give the same reply, log
\* entry, frame, page output and executor call for the same completion and
\* frame, the step taken on either path is the step of the typed copy, and
\* the executor is called at most once.
C14_PathsEquivalent ==
    [][pc = "respond" =>
         /\ LastTurn = Turn("user", <<query>>)
         /\ last_query = query
         /\ last_response = response
         /\ \A b \in BOOLEAN : Reply(response, df, b) = ExampleReply(response, df, b)
         /\ \E b \in BOOLEAN : TypedEffect(b)
         /\ Len(exec_calls') <= 1
         /\ Len(chat_history') <= Len(chat_history) + 1]_vars

\* a typed turn with the text of an example button has reached the response
\* branch with a snippet completion, after a turn with the same query text
\* that was answered with a table
C14_Witness ==
    /\ pc = "respond"
    /\ path = "typed"
    /\ query = examples[1]
    /\ response = Fenced(<<S_HEAD>>)
    /\ Len(chat_history) = 3
    /\ chat_history[1] = Turn("user", <<query>>)
    /\ chat_history[2] = Turn("assistant", <<ACK_TABLE>>)

\* C15: a parked example query is taken by the very next step, which clears
\* the slot and appends one user entry with its text before the pipeline
\* starts; the slot is filled by a button click only and is empty in every
\* state after that step, so through the pipeline, at the end of the turn
\* (a failed one included) and in every later run nothing is left to be
\* processed again; a user entry is added only by the start of a turn.
C15_ExampleConsumedOnce ==
    [][/\ example_query # None =>
            /\ event' = "example"
            /\ example_query' = None
            /\ query' = example_query
            /\ chat_history' = Append(chat_history, Turn("user", <<example_query>>))
            /\ pc' = "prompt"
       /\ example_query' # None => (event' = "click" /\ pc' = "rerun")
       /\ event' = "example" => example_query # None
       /\ UserTurns(chat_history') > UserTurns(chat_history) =>
            /\ event' \in {"send", "example"}
            /\ UserTurns(chat_history') = UserTurns(chat_history) + 1
       /\ Len(exec_calls') <= 1]_vars

\* an example-button turn has failed while the prompt was built, and the
\* slot is empty
C15_Witness ==
    /\ TurnEnded
    /\ event = "prompt"
    /\ LastTurn = Turn("user", <<examples[2]>>)
    /\ UserTurns(chat_history) = 2
    /\ example_query = None
=============================================================================
